---- MODULE Spec2Model ----
(***************************************************************************)
(* A model of src/main.py: the signed order pipeline of the Binance        *)
(* Futures testnet bot (BinanceFuturesClient._sign/_post/place_order),      *)
(* the retry loop (retry_order), the TWAP executor (simple_twap), the       *)
(* min-notional adjustment (ensure_min_notional) and the top-level flow     *)
(* (validate_args, run).                                                    *)
(*                                                                         *)
(* Numbers.  A Python float is modelled as an exact rational n/d counted    *)
(* in units of 10^-7 (one decimal below the 6 digits round() keeps), or as  *)
(* a non-finite value.  Prices are whole numbers.  An optional value is a   *)
(* tuple: <<>> is None and <<v>> is the value v.  A dict is a function      *)
(* from its keys; the ordered parameter mapping is a sequence of entries.   *)
(***************************************************************************)
EXTENDS Integers, Sequences, FiniteSets, TLC

\* ------------------------------------------------------------------ bounds

\* Largest --slices value the command line is given.
MaxSlices == 3

\* Largest number of entries of a parameter mapping handed to _sign directly.
MaxParams == 3

\* ------------------------------------------------------- program constants

min_notional == 100
MaxAttempts == 3
BackoffSecs == 2
RecvWindowRun == 10000
DefaultSlices == 1
DefaultInterval == 10
TransientCode == -1000
\* round(quantity, 6) keeps RoundDigits decimals; the model counts quantities
\* in units one decimal finer.
RoundDigits == 6
FinePerUnit == 10 ^ (RoundDigits + 1)
FinePerMicro == FinePerUnit \div (10 ^ RoundDigits)

\* ------------------------------------------------------------ value helpers

None == <<>>
Some(v) == <<v>>

\* A float: the rational n/d in units of 10^-7, or inf/nan (fin = FALSE).
Fl(n, d) == [fin |-> TRUE, n |-> n, d |-> d]
Inf == [fin |-> FALSE, n |-> 1, d |-> 1]
NaN == [fin |-> FALSE, n |-> 0, d |-> 1]

\* math.isfinite
isfinite(q) == q.fin

\* q <= 0 on floats: false for nan and for +inf.
LeqZero(q) == q.fin /\ q.n <= 0

\* dict.get(key): None when the key is absent.
Get(d, k) == IF k \in DOMAIN d THEN Some(d[k]) ELSE None

\* ------------------------------------------------------------- the exchange

\* Response bodies (resp.text) the order endpoint can send.
AckText == "{orderId:1,status:NEW}"
OtherCode == 0 - 2019
ErrText(c) == IF c = TransientCode THEN "{code:-1000,msg:Internal error}"
              ELSE "{code:-2019,msg:Margin is insufficient}"
GarbageText == "<html>Bad Gateway</html>"
Texts == {AckText, ErrText(TransientCode), ErrText(OtherCode), GarbageText}

\* resp.json(): the dict a body parses to, None when it is not JSON.
Json(text) ==
    IF text = AckText THEN Some([orderId |-> 1, status |-> "NEW"])
    ELSE IF text = ErrText(TransientCode)
         THEN Some([code |-> TransientCode, msg |-> "Internal error"])
    ELSE IF text = ErrText(OtherCode)
         THEN Some([code |-> OtherCode, msg |-> "Margin is insufficient"])
    ELSE None

\* What session.post can do: raise a RequestException before any response
\* exists (connection error, timeout), or deliver a response.
ConnError == [conn |-> FALSE, status |-> 0, text |-> ""]
Http(s, t) == [conn |-> TRUE, status |-> s, text |-> t]
Statuses == {200, 400}
Responses == {ConnError} \cup {Http(s, t) : s \in Statuses, t \in Texts}

\* resp.raise_for_status() raises for 4xx/5xx.
IsOk(status) == status >= 200 /\ status < 400

\* ---------------------------------------------------------- request signing

Entry(k, v) == [k |-> k, v |-> v]
Keys(params) == {params[j].k : j \in 1..Len(params)}
HasKey(params, k) == k \in Keys(params)

\* The {k: v ... if v is not None} comprehension of _sign: insertion order kept.
DropNone(params) == SelectSeq(params, LAMBDA e : e.v # None)

\* urlencode(params, doseq=True): the entries, in order, as one query string.
\* The string is kept abstract: distinct entry sequences give distinct queries.
urlencode(params) == [query |-> [j \in 1..Len(params) |-> <<params[j].k, params[j].v[1]>>]]

\* hmac.new(secret, query, sha256).hexdigest(), kept abstract and injective.
Hmac(query) == [hmac |-> query]

\* d[k] = v on an ordered dict: an existing key keeps its place, a new key
\* goes last.
DictSet(params, k, v) ==
    IF HasKey(params, k)
    THEN [j \in 1..Len(params) |-> IF params[j].k = k THEN Entry(k, v) ELSE params[j]]
    ELSE Append(params, Entry(k, v))

\* The entries of a mapping in reverse order.
Reversed(params) == [j \in 1..Len(params) |-> params[Len(params) + 1 - j]]

\* _sign that signs the entries in another order than it sends them.
_sign_reordered(params) ==
    LET kept == DropNone(params)
        signature == Hmac(urlencode(Reversed(kept)))
    IN  DictSet(kept, "signature", Some(signature))

\* BinanceFuturesClient._sign
_sign(params) ==
    LET kept == DropNone(params)
        signature == Hmac(urlencode(kept))
    IN  DictSet(kept, "signature", Some(signature))

\* --------------------------------------------------------------- _post

\* str(e) of the exception _post catches.
ErrStr(r) ==
    IF ~r.conn THEN "ConnectionError"
    ELSE IF ~IsOk(r.status) THEN "HTTPError"
    ELSE "JSONDecodeError"

\* The try/except of BinanceFuturesClient._post: the dict returned when
\* session.post does r.
\*  - no response (connection error, timeout): resp is unbound, so building
\*    {"error", "raw"} fails and {"error"} alone is returned;
\*  - 4xx/5xx: raise_for_status raises HTTPError, caught: {"error", "raw"},
\*    whatever the body says;
\*  - 2xx with a body that is not JSON: resp.json() raises
\*    requests.exceptions.JSONDecodeError, a RequestException (requests 2.27
\*    and later), caught the same way;
\*  - 2xx with a JSON body: the parsed body.
PostResult(r) ==
    IF ~r.conn THEN [error |-> ErrStr(r)]
    ELSE IF ~IsOk(r.status) THEN [error |-> ErrStr(r), raw |-> r.text]
    ELSE IF Json(r.text) = None THEN [error |-> ErrStr(r), raw |-> r.text]
    ELSE Json(r.text)[1]

\* BinanceFuturesClient._post: signs params, sends the signed mapping as the
\* form data and returns the result; the call is recorded as an event.
_post(params, r) ==
    [ev |-> "post", params |-> params, data |-> _sign(params), response |-> r,
     result |-> PostResult(r)]

\* ----------------------------------------------------------- place_order

\* str.upper on the side and order type strings.
Upper(s) ==
    IF s = "buy" THEN "BUY"
    ELSE IF s = "sell" THEN "SELL"
    ELSE IF s = "market" THEN "MARKET"
    ELSE IF s = "limit" THEN "LIMIT"
    ELSE s

\* The exception place_order raises before any request is built, or None.
PlaceOrderRaises(side, ordertype, price) ==
    IF Upper(side) \notin {"BUY", "SELL"} THEN Some("AssertionError")
    ELSE IF Upper(ordertype) \notin {"MARKET", "LIMIT"} THEN Some("AssertionError")
    ELSE IF Upper(ordertype) = "LIMIT" /\ price = None
         THEN Some("ValueError: LIMIT order requires --price")
    ELSE None

\* BinanceFuturesClient._timestamp: local time in ms plus the clock offset.
_timestamp(now, offset) == now * 1000 + offset

\* OrderParams that passes a supplied price on whatever the order type.
OrderParamsKeepPrice(symbol, side, ordertype, quantity, price, time_in_force, ts, recv_window) ==
    << Entry("symbol", Some(symbol)),
       Entry("side", Some(Upper(side))),
       Entry("type", Some(Upper(ordertype))),
       Entry("quantity", Some(quantity)),
       Entry("timestamp", Some(ts)),
       Entry("recvWindow", Some(recv_window)),
       Entry("reduceOnly", Some("false")),
       Entry("closePosition", Some("false")) >>
    \o (IF price # None THEN << Entry("price", price) >> ELSE << >>)
    \o (IF Upper(ordertype) = "LIMIT" THEN << Entry("timeInForce", time_in_force) >> ELSE << >>)

\* The params dict place_order hands to _post (lines 114-133).
OrderParams(symbol, side, ordertype, quantity, price, time_in_force, ts, recv_window) ==
    LET base == << Entry("symbol", Some(symbol)),
                   Entry("side", Some(Upper(side))),
                   Entry("type", Some(Upper(ordertype))),
                   Entry("quantity", Some(quantity)),
                   Entry("timestamp", Some(ts)),
                   Entry("recvWindow", Some(recv_window)),
                   Entry("reduceOnly", Some("false")),
                   Entry("closePosition", Some("false")) >>
    IN  IF Upper(ordertype) = "LIMIT"
        THEN base \o << Entry("price", Some(price[1])),
                        Entry("timeInForce", time_in_force) >>
        ELSE SelectSeq(base, LAMBDA e : e.k # "price")

\* BinanceFuturesClient.place_order when session.post does r: the exception
\* raised (and then no request), or the event of the one POST it makes.
place_order(offset, recv_window, now, symbol, side, ordertype, quantity, price, time_in_force, r) ==
    IF PlaceOrderRaises(side, ordertype, price) # None
    THEN [raised |-> PlaceOrderRaises(side, ordertype, price)]
    ELSE [raised |-> None,
          post |-> _post(OrderParams(symbol, side, ordertype, quantity, price,
                                     time_in_force, _timestamp(now, offset), recv_window), r)]

\* ------------------------------------------------------ ensure_min_notional

\* The integers nearest to num/den (den > 0).  An exact tie stands for a
\* decimal the binary float only approximates, so round() may go either way.
RoundDivSet(num, den) ==
    LET q == num \div den
        r == num % den
    IN  IF 2 * r < den THEN {q}
        ELSE IF 2 * r > den THEN {q + 1}
        ELSE {q, q + 1}

\* Round6 that truncates instead of rounding to nearest.
Round6Truncate(q) == { Fl((q.n \div (q.d * FinePerMicro)) * FinePerMicro, 1) }

\* round(quantity, 6): the possible results.
Round6(q) == { Fl(m * FinePerMicro, 1) : m \in RoundDivSet(q.n, q.d * FinePerMicro) }

\* quantity * current_price < min_notional
BelowMinNotional(q, current_price) ==
    q.n * current_price < min_notional * FinePerUnit * q.d

\* ensure_min_notional, given the price get_current_price returned: the
\* possible return values.
ensure_min_notional(quantity, current_price) ==
    IF BelowMinNotional(quantity, current_price)
    THEN Round6(Fl(min_notional * FinePerUnit, current_price))
    ELSE Round6(quantity)

\* ------------------------------------------------------------ validate_args

\* validate_args without the quantity check.
validate_args_no_quantity(a) ==
    IF a.ordertype = "LIMIT" /\ a.price = None
    THEN Some("ERROR: LIMIT order requires --price")
    ELSE IF a.ordertype = "TWAP" /\ a.slices <= 0
    THEN Some("ERROR: --slices must be > 0 for TWAP")
    ELSE IF a.ordertype = "TWAP" /\ a.interval < 0
    THEN Some("ERROR: --interval must be >= 0")
    ELSE None

\* validate_args: the SystemExit message, or None when the arguments pass.
validate_args(a) ==
    IF a.ordertype = "LIMIT" /\ a.price = None
    THEN Some("ERROR: LIMIT order requires --price")
    ELSE IF a.ordertype = "TWAP" /\ a.slices <= 0
    THEN Some("ERROR: --slices must be > 0 for TWAP")
    ELSE IF a.ordertype = "TWAP" /\ a.interval < 0
    THEN Some("ERROR: --interval must be >= 0")
    ELSE IF ~isfinite(a.quantity) \/ LeqZero(a.quantity)
    THEN Some("ERROR: --quantity must be > 0")
    ELSE None

\* ------------------------------------------------------------------- state

VARIABLES
    argv,         \* the parsed command line (or the arguments of a direct call)
    args,         \* the args namespace run() works on (quantity, price mutate)
    pc,           \* where the control is
    time_offset,  \* client.time_offset: None until the client is constructed
    clock,        \* seconds of local time passed since the start
    log,          \* every network call and every sleep, in order
    attempt,      \* retry_order's loop variable
    resp,         \* retry_order's resp: None before the first call
    i,            \* simple_twap's loop variable
    per_slice,    \* simple_twap's per_slice
    results,      \* simple_twap's results list
    ret,          \* what retry_order / simple_twap / place_order returned
    exit          \* the SystemExit message or uncaught exception ending the run

vars == <<argv, args, pc, time_offset, clock, log, attempt, resp, i, per_slice,
          results, ret, exit>>

Symbol == "BTCUSDT"

\* ------------------------------------------------------------------ inputs

Sides == {"BUY", "SELL"}
OrderTypes == {"MARKET", "LIMIT", "TWAP"}
TimeInForces == {"GTC", "IOC", "FOK"}
\* --quantity: 0, negative, 0.0001, 0.0020005, 0.0030001, 0.003, inf, nan.
Quantities == {Fl(0, 1), Fl(0 - 1000, 1), Fl(1000, 1), Fl(20005, 1), Fl(30001, 1),
               Fl(30000, 1), Inf, NaN}
\* --price
Prices == {None, Some(59000)}
\* --slices and --interval, given with TWAP
SlicesValues == (0 - 1)..MaxSlices
Intervals == {0 - 1, 0, 10}
\* what GET /fapi/v1/ticker/price answers: a price, or a failure (None)
PriceAnswers == {None, Some(60000), Some(50)}
\* what GET /fapi/v1/time gives: serverTime - local time, or a failure (None)
TimeAnswers == {None, Some(0 - 250), Some(300)}

\* The namespaces parse_args can produce (choices and defaults applied).
ArgSpace ==
    { [ordertype |-> t, side |-> s, quantity |-> q, price |-> p,
       slices |-> n, interval |-> iv, time_in_force |-> tif] :
        t \in OrderTypes, s \in Sides, q \in Quantities, p \in Prices,
        n \in SlicesValues, iv \in Intervals, tif \in TimeInForces }

CliArgs ==
    { a \in ArgSpace :
        /\ a.ordertype # "TWAP" => a.slices = DefaultSlices /\ a.interval = DefaultInterval
        /\ a.ordertype # "LIMIT" => a.time_in_force = "GTC" /\ a.price = None }

Init ==
    /\ argv \in CliArgs
    /\ args = argv
    /\ pc = "start"
    /\ time_offset = None
    /\ clock = 0
    /\ log = <<>>
    /\ attempt = 0
    /\ resp = None
    /\ i = 0
    /\ per_slice = Fl(0, 1)
    /\ results = <<>>
    /\ ret = None
    /\ exit = None

\* ------------------------------------------------------------ run(): start

\* Lines 213-214: parse_args, validate_args.  A failed validation raises
\* SystemExit here, before the client exists.
Validate ==
    /\ pc = "start"
    /\ IF validate_args(args) # None
       THEN /\ exit' = validate_args(args)
            /\ pc' = "exited"
       ELSE /\ exit' = exit
            /\ pc' = "construct"
    /\ UNCHANGED <<argv, args, time_offset, clock, log, attempt, resp, i,
                   per_slice, results, ret>>

\* BinanceFuturesClient._get_server_time_offset: the offset on success, 0 on
\* any failure.
_get_server_time_offset(answer) == IF answer = None THEN 0 ELSE answer[1]

\* NeedsMinNotional that adjusts whatever the order type.
NeedsMinNotionalAlways(ordertype) == TRUE

\* Line 219: the adjustment is made for MARKET and LIMIT only.
NeedsMinNotional(ordertype) == ordertype # "TWAP"

\* Construct that lets a failed time request end the run.
ConstructAbortOnSyncFailure ==
    /\ pc = "construct"
    /\ \E answer \in TimeAnswers :
          /\ log' = Append(log, [ev |-> "time", answer |-> answer])
          /\ IF answer = None
             THEN /\ time_offset' = time_offset
                  /\ exit' = Some("Order failed. Check logs for details.")
                  /\ pc' = "exited"
             ELSE /\ time_offset' = Some(_get_server_time_offset(answer))
                  /\ exit' = exit
                  /\ pc' = IF NeedsMinNotional(args.ordertype) THEN "min_notional" ELSE "order"
    /\ UNCHANGED <<argv, args, clock, attempt, resp, i, per_slice, results, ret>>

\* Line 216: BinanceFuturesClient.__init__, with its one GET /fapi/v1/time.
Construct ==
    /\ pc = "construct"
    /\ \E answer \in TimeAnswers :
          /\ time_offset' = Some(_get_server_time_offset(answer))
          /\ log' = Append(log, [ev |-> "time", answer |-> answer])
    /\ pc' = IF NeedsMinNotional(args.ordertype) THEN "min_notional" ELSE "order"
    /\ UNCHANGED <<argv, args, clock, attempt, resp, i, per_slice, results, ret, exit>>

\* Lines 219-220: ensure_min_notional with its GET /fapi/v1/ticker/price.
\* The call stands outside run()'s try block: a failed lookup (network
\* error, no "price" in the answer) leaves run() as an uncaught exception.
EnsureMinNotional ==
    /\ pc = "min_notional"
    /\ \E answer \in PriceAnswers :
          /\ log' = Append(log, [ev |-> "price", answer |-> answer])
          /\ IF answer = None
             THEN /\ exit' = Some("uncaught exception")
                  /\ pc' = "crashed"
                  /\ args' = args
             ELSE /\ \E q \in ensure_min_notional(args.quantity, answer[1]) :
                        args' = [args EXCEPT !.quantity = q]
                  /\ pc' = "order"
                  /\ exit' = exit
    /\ UNCHANGED <<argv, time_offset, clock, attempt, resp, i, per_slice, results, ret>>

\* The handlers at lines 266-274: the SystemExit message for an exception
\* raised inside the try block.
ExitMessage(exc) ==
    IF exc = "AssertionError" THEN "AssertionError"
    ELSE IF exc = "ValueError: LIMIT order requires --price"
         THEN "LIMIT order requires --price"
    ELSE IF exc = "ValueError: slices must be > 0" THEN "slices must be > 0"
    ELSE "Order failed. Check logs for details."

\* Lines 225-230: the MARKET branch enters retry_order.
OrderMarket ==
    /\ pc = "order"
    /\ args.ordertype = "MARKET"
    /\ attempt' = 0
    /\ pc' = "retry_call"
    /\ UNCHANGED <<argv, args, time_offset, clock, log, resp, i, per_slice,
                   results, ret, exit>>

\* run()'s auto-set price (line 239).
AutoPrice(side, current_price) ==
    IF side = "BUY" THEN current_price + 1 ELSE current_price - 1

\* Lines 235-248: the LIMIT branch; a missing price is looked up and set to
\* the current price +/- 1, then retry_order is entered.
OrderLimit ==
    /\ pc = "order"
    /\ args.ordertype = "LIMIT"
    /\ IF args.price = None
       THEN \E answer \in PriceAnswers :
               /\ log' = Append(log, [ev |-> "price", answer |-> answer])
               /\ IF answer = None
                  THEN /\ exit' = Some(ExitMessage("Exception"))
                       /\ pc' = "exited"
                       /\ args' = args
                  ELSE /\ args' = [args EXCEPT !.price = Some(AutoPrice(args.side, answer[1]))]
                       /\ pc' = "retry_call"
                       /\ exit' = exit
       ELSE /\ pc' = "retry_call"
            /\ UNCHANGED <<args, log, exit>>
    /\ attempt' = 0
    /\ UNCHANGED <<argv, time_offset, clock, resp, i, per_slice, results, ret>>

\* PerSliceQty that cuts each slice down to whole units of 10^-6.
PerSliceQtyTruncated(total_qty, slices) ==
    Fl((total_qty.n \div (total_qty.d * slices * FinePerMicro)) * FinePerMicro, 1)

\* Line 140: per_slice = float(total_qty) / slices
PerSliceQty(total_qty, slices) == Fl(total_qty.n, total_qty.d * slices)

\* Lines 253-260 and 138-142: the TWAP branch enters simple_twap, which
\* rejects slices <= 0 and computes per_slice once.
OrderTwap ==
    /\ pc = "order"
    /\ args.ordertype = "TWAP"
    /\ IF args.slices <= 0
       THEN /\ exit' = Some(ExitMessage("ValueError: slices must be > 0"))
            /\ pc' = "exited"
            /\ per_slice' = per_slice
       ELSE /\ per_slice' = PerSliceQty(args.quantity, args.slices)
            /\ pc' = "twap_call"
            /\ exit' = exit
    /\ i' = 0
    /\ results' = <<>>
    /\ UNCHANGED <<argv, args, time_offset, clock, log, attempt, resp, ret>>

\* ------------------------------------------------------------- retry_order

\* Line 171: resp.get("code") == -1000
IsTransient(res) == Get(res, "code") = Some(TransientCode)

\* HasNextAttempt with the loop bound off by one (range(4)).
HasNextAttemptOffByOne(a) == a + 1 <= MaxAttempts

\* HasNextAttempt of a loop that goes on as long as the code is -1000.
HasNextAttemptAlways(a) == TRUE

\* for attempt in range(3): whether another iteration follows this one.
HasNextAttempt(a) == a + 1 < MaxAttempts

\* The exception that leaves the try block of run(), as run() reports it.
Raise(exc) ==
    /\ exit' = Some(ExitMessage(exc))
    /\ pc' = "exited"

\* Lines 170-171, 175: one place_order call of retry_order and the test of
\* its result; a result other than code -1000 is returned at once.
RetryCall ==
    /\ pc = "retry_call"
    /\ \E r \in Responses :
          LET out == place_order(time_offset[1], RecvWindowRun, clock, Symbol,
                                 args.side, args.ordertype, args.quantity,
                                 IF args.ordertype = "LIMIT" THEN args.price ELSE None,
                                 Some(args.time_in_force), r)
          IN  IF out.raised # None
              THEN /\ Raise(out.raised[1])
                   /\ UNCHANGED <<log, resp, ret>>
              ELSE /\ log' = Append(log, out.post)
                   /\ resp' = Some(out.post.result)
                   /\ exit' = exit
                   /\ IF IsTransient(out.post.result)
                      THEN /\ pc' = "retry_sleep"
                           /\ ret' = ret
                      ELSE /\ pc' = "done"
                           /\ ret' = Some(out.post.result)
    /\ UNCHANGED <<argv, args, time_offset, clock, attempt, i, per_slice, results>>

\* RetrySleep that reports exhausted retries as an error of its own.
RetrySleepEscalate ==
    /\ pc = "retry_sleep"
    /\ clock' = clock + BackoffSecs
    /\ log' = Append(log, [ev |-> "sleep", secs |-> BackoffSecs])
    /\ IF HasNextAttempt(attempt)
       THEN /\ attempt' = attempt + 1
            /\ pc' = "retry_call"
            /\ ret' = ret
       ELSE /\ attempt' = attempt
            /\ pc' = "done"
            /\ ret' = Some([error |-> "retries exhausted"])
    /\ UNCHANGED <<argv, args, time_offset, resp, i, per_slice, results, exit>>

\* Lines 172-174, 176: the 2-second sleep after a -1000 result, then the next
\* iteration, or, after the last one, the return of the last result.
RetrySleep ==
    /\ pc = "retry_sleep"
    /\ clock' = clock + BackoffSecs
    /\ log' = Append(log, [ev |-> "sleep", secs |-> BackoffSecs])
    /\ IF HasNextAttempt(attempt)
       THEN /\ attempt' = attempt + 1
            /\ pc' = "retry_call"
            /\ ret' = ret
       ELSE /\ attempt' = attempt
            /\ pc' = "done"
            /\ ret' = resp
    /\ UNCHANGED <<argv, args, time_offset, resp, i, per_slice, results, exit>>

\* -------------------------------------------------------------- simple_twap

\* SleepsAfter that also sleeps after the last slice.
SleepsAfterEvery(idx, slices) == idx < slices

\* Line 147: i < slices - 1
SleepsAfter(idx, slices) == idx < slices - 1

\* Collect that leaves failed slices out of the list.
CollectSkipFailed(rs, res) == IF "error" \in DOMAIN res THEN rs ELSE Append(rs, res)

\* Line 146: results.append(res)
Collect(rs, res) == Append(rs, res)

\* TwapCall that places a slice again when its result is code -1000.
TwapCallRetrying ==
    /\ pc = "twap_call"
    /\ \E r \in Responses :
          LET out == place_order(time_offset[1], RecvWindowRun, clock, Symbol,
                                 args.side, "MARKET", per_slice, None, Some("GTC"), r)
          IN  IF out.raised # None
              THEN /\ Raise(out.raised[1])
                   /\ UNCHANGED <<log, results, ret>>
              ELSE /\ log' = Append(log, out.post)
                   /\ exit' = exit
                   /\ IF IsTransient(out.post.result)
                      THEN /\ pc' = "twap_call"
                           /\ UNCHANGED <<results, ret>>
                      ELSE /\ results' = Collect(results, out.post.result)
                           /\ IF SleepsAfter(i, args.slices)
                              THEN /\ pc' = "twap_sleep"
                                   /\ ret' = ret
                              ELSE /\ pc' = "done"
                                   /\ ret' = Some(results')
    /\ UNCHANGED <<argv, args, time_offset, clock, attempt, resp, i, per_slice>>

\* Lines 144-147, 149: one slice: a MARKET order for per_slice, its result
\* appended; after the last slice the list is returned.
TwapCall ==
    /\ pc = "twap_call"
    /\ \E r \in Responses :
          LET out == place_order(time_offset[1], RecvWindowRun, clock, Symbol,
                                 args.side, "MARKET", per_slice, None, Some("GTC"), r)
          IN  IF out.raised # None
              THEN /\ Raise(out.raised[1])
                   /\ UNCHANGED <<log, results, ret>>
              ELSE /\ log' = Append(log, out.post)
                   /\ results' = Collect(results, out.post.result)
                   /\ exit' = exit
                   /\ IF SleepsAfter(i, args.slices)
                      THEN /\ pc' = "twap_sleep"
                           /\ ret' = ret
                      ELSE /\ pc' = "done"
                           /\ ret' = Some(results')
    /\ UNCHANGED <<argv, args, time_offset, clock, attempt, resp, i, per_slice>>

\* TwapSleep that asks the server time again before the next slice.
TwapSleepResync ==
    /\ pc = "twap_sleep"
    /\ clock' = clock + args.interval
    /\ \E answer \in TimeAnswers :
          /\ time_offset' = Some(_get_server_time_offset(answer))
          /\ log' = log \o << [ev |-> "sleep", secs |-> args.interval],
                               [ev |-> "time", answer |-> answer] >>
    /\ i' = i + 1
    /\ pc' = "twap_call"
    /\ UNCHANGED <<argv, args, attempt, resp, per_slice, results, ret, exit>>

\* Line 148 and the loop step: time.sleep(interval), then the next slice.
TwapSleep ==
    /\ pc = "twap_sleep"
    /\ clock' = clock + args.interval
    /\ log' = Append(log, [ev |-> "sleep", secs |-> args.interval])
    /\ i' = i + 1
    /\ pc' = "twap_call"
    /\ UNCHANGED <<argv, args, time_offset, attempt, resp, per_slice, results, ret, exit>>

\* ------------------------------------------------------------ specification

Next ==
    \/ Validate
    \/ Construct
    \/ EnsureMinNotional
    \/ OrderMarket
    \/ OrderLimit
    \/ OrderTwap
    \/ RetryCall
    \/ RetrySleep
    \/ TwapCall
    \/ TwapSleep

Spec == Init /\ [][Next]_vars

\* The run with every network call and every sleep returning: a step that
\* can be taken is eventually taken.
\* The command lines of the fair runs: one side, and one quantity for each way
\* validate_args and ensure_min_notional can go (rejected, raised, kept, nan).
FairArgs ==
    { a \in CliArgs :
        /\ a.side = "BUY"
        /\ a.quantity \in {Fl(0, 1), Fl(1000, 1), Fl(30000, 1), NaN} }

InitFair ==
    /\ argv \in FairArgs
    /\ args = argv
    /\ pc = "start"
    /\ time_offset = None
    /\ clock = 0
    /\ log = <<>>
    /\ attempt = 0
    /\ resp = None
    /\ i = 0
    /\ per_slice = Fl(0, 1)
    /\ results = <<>>
    /\ ret = None
    /\ exit = None

FairSpec == InitFair /\ [][Next]_vars /\ WF_vars(Next)

\* --------------------------------------------- place_order called directly

\* Arguments a caller of the client's API can pass to place_order: any
\* strings for side and order type, a price or none with either type.
ApiArgs ==
    { [ordertype |-> t, side |-> s, quantity |-> q, price |-> p,
       slices |-> DefaultSlices, interval |-> DefaultInterval, time_in_force |-> tif] :
        t \in {"MARKET", "LIMIT", "limit", "TWAP"},
        s \in {"BUY", "SELL", "buy", "HOLD"},
        q \in {Fl(1000, 1), Fl(30000, 1)},
        p \in Prices, tif \in TimeInForces }

\* A constructed client and the arguments of one place_order call.
InitPlace ==
    /\ argv \in ApiArgs
    /\ args = argv
    /\ pc = "api"
    /\ time_offset \in {Some(_get_server_time_offset(answer)) : answer \in TimeAnswers}
    /\ clock = 0
    /\ log = <<>>
    /\ attempt = 0
    /\ resp = None
    /\ i = 0
    /\ per_slice = Fl(0, 1)
    /\ results = <<>>
    /\ ret = None
    /\ exit = None

\* One call client.place_order(symbol, side, ordertype, quantity, price,
\* time_in_force=...): it raises, or makes its POST and returns the result.
ApiPlaceOrder ==
    /\ pc = "api"
    /\ \E r \in Responses :
          LET out == place_order(time_offset[1], RecvWindowRun, clock, Symbol,
                                 args.side, args.ordertype, args.quantity,
                                 args.price, Some(args.time_in_force), r)
          IN  IF out.raised # None
              THEN /\ exit' = out.raised
                   /\ pc' = "api_raised"
                   /\ UNCHANGED <<log, ret>>
              ELSE /\ log' = Append(log, out.post)
                   /\ ret' = Some(out.post.result)
                   /\ pc' = "api_returned"
                   /\ exit' = exit
    /\ UNCHANGED <<argv, args, time_offset, clock, attempt, resp, i, per_slice, results>>

NextPlace == ApiPlaceOrder

SpecPlace == InitPlace /\ [][NextPlace]_vars

\* --------------------------------------------------- _sign called directly

\* Keys and values of the mappings handed to _sign: a value may be None.
SignKeys == {"symbol", "price", "timeInForce", "signature"}
SignValues == {None, Some(1), Some(2)}

\* The mappings of at most n entries with distinct keys, in every order.
RECURSIVE Mappings(_)
Mappings(n) ==
    IF n = 0 THEN {<<>>}
    ELSE Mappings(n - 1) \cup
         { Append(m, Entry(k, v)) :
             m \in {mm \in Mappings(n - 1) : Len(mm) = n - 1},
             k \in SignKeys, v \in SignValues }

SignInputs == { m \in Mappings(MaxParams) : Cardinality(Keys(m)) = Len(m) }

\* A parameter mapping about to be signed.
InitSign ==
    /\ argv \in SignInputs
    /\ args = argv
    /\ pc = "sign"
    /\ time_offset = None
    /\ clock = 0
    /\ log = <<>>
    /\ attempt = 0
    /\ resp = None
    /\ i = 0
    /\ per_slice = Fl(0, 1)
    /\ results = <<>>
    /\ ret = None
    /\ exit = None

\* One call client._sign(params).
ApplySign ==
    /\ pc = "sign"
    /\ ret' = Some(_sign(argv))
    /\ pc' = "signed"
    /\ UNCHANGED <<argv, args, time_offset, clock, log, attempt, resp, i, per_slice,
                   results, exit>>

NextSign == ApplySign

SpecSign == InitSign /\ [][NextSign]_vars

\* ------------------------------------------------------------------ claims

\* The order POSTs made so far, in order.
Posts == SelectSeq(log, LAMBDA e : e.ev = "post")

\* The value stored under key k of an ordered parameter mapping.
ParamValue(params, k) ==
    LET j == CHOOSE j \in 1..Len(params) : params[j].k = k IN params[j].v

\* A result that carries the exchange code -1000.
HasCode1000(res) == "code" \in DOMAIN res /\ res.code = 0 - 1000

\* The run has ended: normally, by SystemExit, or by an uncaught exception.
Ended == pc \in {"done", "exited", "crashed"}

\* C1: in a MARKET or LIMIT run retry_order makes at most 3 place_order
\* calls; every call but the last returned code -1000, and when it has
\* returned, the last call is the third one or returned something else: the
\* number of calls is min(3, position of the first result that is not -1000).
C1_RetryBound ==
    argv.ordertype \in {"MARKET", "LIMIT"} =>
        /\ Len(Posts) <= 3
        /\ \A j \in 1..(Len(Posts) - 1) : HasCode1000(Posts[j].result)
        /\ pc = "done" =>
              /\ Len(Posts) >= 1
              /\ Len(Posts) = 3 \/ ~HasCode1000(Posts[Len(Posts)].result)

\* retry_order has returned after three calls that all gave -1000.
C1_Witness ==
    /\ argv.ordertype \in {"MARKET", "LIMIT"}
    /\ pc = "done"
    /\ Len(Posts) = 3
    /\ \A j \in 1..3 : HasCode1000(Posts[j].result)

\* C2: a TWAP run that passed validation never ends in an exception, and
\* simple_twap returns the list of the results of its placements, in slice
\* order: N entries, the j-th being the result of the j-th POST, failed
\* slices included.
C2_TwapRecord ==
    argv.ordertype = "TWAP" =>
        /\ time_offset # None => exit = None
        /\ Len(results) = Len(Posts)
        /\ \A j \in 1..Len(results) : results[j] = Posts[j].result
        /\ pc = "done" =>
              /\ ret = Some(results)
              /\ Len(ret[1]) = argv.slices

\* A TWAP of at least two slices has returned a record holding both a failed
\* slice and an acknowledged one.
C2_Witness ==
    /\ argv.ordertype = "TWAP"
    /\ pc = "done"
    /\ argv.slices >= 2
    /\ \E j \in 1..Len(ret[1]) : "error" \in DOMAIN ret[1][j]
    /\ \E j \in 1..Len(ret[1]) : "orderId" \in DOMAIN ret[1][j]

\* What C3 asks of one parameter mapping.
PriceFieldRule(params) ==
    /\ ParamValue(params, "type") \in {Some("MARKET"), Some("LIMIT")}
    /\ ParamValue(params, "type") = Some("MARKET") => ~HasKey(params, "price")
    /\ ParamValue(params, "type") = Some("LIMIT") =>
          /\ HasKey(params, "price") /\ ParamValue(params, "price") # None
          /\ HasKey(params, "timeInForce") /\ ParamValue(params, "timeInForce") # None

\* C3: the parameters place_order hands to _post, and the signed mapping
\* that is sent, hold no price when the type is MARKET, even when a price
\* argument was passed, and hold price and timeInForce when it is LIMIT.
C3_PriceField ==
    \A j \in 1..Len(log) :
        log[j].ev = "post" => PriceFieldRule(log[j].params) /\ PriceFieldRule(log[j].data)

\* place_order was called for a MARKET order with a price argument and has
\* made its POST.
C3_Witness ==
    /\ pc = "api_returned"
    /\ Upper(argv.ordertype) = "MARKET"
    /\ argv.price # None
    /\ Len(Posts) = 1

\* C4: once retry_order has made a call the run does not end in an
\* exception, and what retry_order returns is the result of its last
\* place_order call, also after three -1000 results.
C4_ReturnsLastResult ==
    (argv.ordertype \in {"MARKET", "LIMIT"} /\ Len(Posts) >= 1) =>
        /\ exit = None
        /\ pc \in {"retry_call", "retry_sleep", "done"}
        /\ pc = "done" => ret = Some(Posts[Len(Posts)].result)

\* retry_order has returned the third -1000 result.
C4_Witness ==
    /\ argv.ordertype \in {"MARKET", "LIMIT"}
    /\ pc = "done"
    /\ Len(Posts) = 3
    /\ ret = Some(Posts[3].result)
    /\ HasCode1000(ret[1])

\* What a TWAP run has done after the construction of the client.
TwapTrail == SubSeq(log, 2, Len(log))

\* C5: a TWAP run of N slices alternates placements and delays, starting and
\* ending with a placement: N placements whatever their results, N-1 delays
\* of the interval, none after the last placement, and no abort in between.
C5_TwapSchedule ==
    (argv.ordertype = "TWAP" /\ argv.slices >= 1) =>
        /\ \A j \in 1..Len(TwapTrail) :
              IF j % 2 = 1 THEN TwapTrail[j].ev = "post"
              ELSE TwapTrail[j].ev = "sleep" /\ TwapTrail[j].secs = argv.interval
        /\ Len(TwapTrail) <= 2 * argv.slices - 1
        /\ Len(TwapTrail) >= 1 => pc \in {"twap_call", "twap_sleep", "done"}
        /\ pc = "done" => Len(TwapTrail) = 2 * argv.slices - 1

\* A TWAP of three slices has finished although its first slice failed.
C5_Witness ==
    /\ argv.ordertype = "TWAP"
    /\ pc = "done"
    /\ argv.slices = 3
    /\ "error" \in DOMAIN Posts[1].result
    /\ Len(SelectSeq(log, LAMBDA e : e.ev = "sleep")) = 2

\* The response is an HTTP error whose body parses to an exchange error.
IsHttpErrorWithPayload(r) ==
    /\ r.conn
    /\ r.status >= 400
    /\ Json(r.text) # None
    /\ "code" \in DOMAIN Json(r.text)[1]

\* C6: when the order POST fails with a non-2xx status and the body is a
\* parseable exchange error, the result of place_order carries the
\* exchange's integer code and its message.
C6_StructuredError ==
    \A j \in 1..Len(Posts) :
        IsHttpErrorWithPayload(Posts[j].response) =>
            /\ "code" \in DOMAIN Posts[j].result
            /\ Posts[j].result.code = Json(Posts[j].response.text)[1].code
            /\ "msg" \in DOMAIN Posts[j].result

C8_AutoPrice ==
    (/\ argv.ordertype = "LIMIT"
     /\ argv.price = None
     /\ argv.quantity.fin /\ argv.quantity.n > 0
     /\ Ended) =>
        \/ \E j \in 1..Len(log) : log[j].ev = "price" /\ log[j].answer = None
        \/ \E j \in 1..Len(log) : \E k \in (j + 1)..Len(log) :
              /\ log[j].ev = "price"
              /\ log[k].ev = "post"
              /\ ParamValue(log[k].params, "type") = Some("LIMIT")
              /\ ParamValue(log[k].params, "price") =
                    Some(IF argv.side = "BUY" THEN log[j].answer[1] + 1
                         ELSE log[j].answer[1] - 1)

\* The order intent fails validation, in the words of C9.
FailsValidation(a) ==
    \/ a.ordertype = "LIMIT" /\ a.price = None
    \/ ~a.quantity.fin
    \/ a.quantity.n <= 0
    \/ a.ordertype = "TWAP" /\ (a.slices <= 0 \/ a.interval < 0)

AdjustedAt ==
    IF /\ argv.ordertype # "TWAP"
       /\ Len(log) >= 2
       /\ log[2].ev = "price"
       /\ log[2].answer # None
    THEN log[2].answer
    ELSE None

\* quantity x P < 100, on the quantity given on the command line.
NotionalBelow(q, P) == q.n * P < 100 * FinePerUnit * q.d

\* q x P >= 100 up to the rounding of q to 6 decimals (half a unit of the
\* last decimal, times the price).
NotionalReached(q, P) == q.n * P >= (100 * FinePerUnit - (FinePerMicro * P) \div 2) * q.d

\* C10 as stated: below the threshold the returned quantity reaches it
\* (within rounding); otherwise the returned quantity is the input quantity.
C10_AsStated ==
    AdjustedAt # None =>
        IF NotionalBelow(argv.quantity, AdjustedAt[1])
        THEN NotionalReached(args.quantity, AdjustedAt[1])
        ELSE args.quantity.n * argv.quantity.d = argv.quantity.n * args.quantity.d

\* q2 is q1 rounded to 6 decimals: a multiple of 10^-6 at most half of
\* 10^-6 away from q1.
IsRounded6(q1, q2) ==
    /\ q2.d = 1
    /\ q2.n % FinePerMicro = 0
    /\ 2 * (q2.n * q1.d - q1.n) <= FinePerMicro * q1.d
    /\ 2 * (q1.n - q2.n * q1.d) <= FinePerMicro * q1.d

\* C10 amended: below the threshold the returned quantity reaches it (within
\* rounding); otherwise the returned quantity is the input quantity rounded
\* to 6 decimals.
C10_MinNotional ==
    AdjustedAt # None =>
        IF NotionalBelow(argv.quantity, AdjustedAt[1])
        THEN NotionalReached(args.quantity, AdjustedAt[1])
        ELSE IsRounded6(argv.quantity, args.quantity)

\* 0.0030001 at price 60000 (notional 180) has come back as 0.003.
C10_Witness ==
    /\ AdjustedAt = Some(60000)
    /\ ~NotionalBelow(argv.quantity, 60000)
    /\ argv.quantity = Fl(30001, 1)
    /\ args.quantity = Fl(30000, 1)

\* 0.0001 at price 60000 (notional 6) has come back as 0.001667.
C10_WitnessAdjusted ==
    /\ AdjustedAt = Some(60000)
    /\ argv.quantity = Fl(1000, 1)
    /\ args.quantity = Fl(16670, 1)

\* C11: a failure in the order flow after validation, a failed price lookup
\* of the min-notional adjustment included, never leaves run() uncaught: the
\* run ends with the generic failure message.
C11_CaughtAtBoundary ==
    /\ pc # "crashed"
    /\ (/\ Ended
        /\ \E j \in 1..Len(log) : log[j].ev = "price" /\ log[j].answer = None)
       => exit = Some("Order failed. Check logs for details.")

\* The quantity parameter of the j-th order POST.
PostedQty(j) == ParamValue(Posts[j].params, "quantity")[1]

\* The sum of the quantities of the first k POSTs, as a fraction.
RECURSIVE SumPosted(_)
SumPosted(k) ==
    IF k = 0 THEN Fl(0, 1)
    ELSE LET s == SumPosted(k - 1)
             q == PostedQty(k)
         IN  Fl(s.n * q.d + q.n * s.d, s.d * q.d)

\* C12: in a TWAP run every placement carries the same quantity, which is
\* totalQuantity / sliceCount, and when the run is done the quantities of
\* the N placements add up to totalQuantity.
C12_TwapQuantity ==
    argv.ordertype = "TWAP" =>
        /\ \A j \in 1..Len(Posts) :
              /\ PostedQty(j) = PostedQty(1)
              /\ PostedQty(j).n * argv.slices * argv.quantity.d
                    = argv.quantity.n * PostedQty(j).d
        /\ pc = "done" =>
              /\ Len(Posts) = argv.slices
              /\ SumPosted(Len(Posts)).n * argv.quantity.d
                    = argv.quantity.n * SumPosted(Len(Posts)).d

\* A TWAP of 0.0030001 in three slices, which is no whole number of units of
\* 10^-7 per slice, is done.
C12_Witness ==
    /\ argv.ordertype = "TWAP"
    /\ pc = "done"
    /\ argv.slices = 3
    /\ argv.quantity = Fl(30001, 1)
    /\ Len(Posts) = 3

\* The exchange answered with an error payload of code -1000, whatever the
\* HTTP status.
RejectedWith1000(r) ==
    /\ r.conn
    /\ Json(r.text) # None
    /\ "code" \in DOMAIN Json(r.text)[1]
    /\ Json(r.text)[1].code = 0 - 1000

\* C13: in a MARKET or LIMIT run, a placement the exchange rejected with
\* code -1000 is retried unless it was the third attempt, whatever the HTTP
\* status of the rejection; any other answer ends retry_order.
C13_RetriesTransient ==
    (argv.ordertype \in {"MARKET", "LIMIT"} /\ pc = "done") =>
        \A j \in 1..Len(Posts) :
            /\ (RejectedWith1000(Posts[j].response) /\ j < 3) => Len(Posts) > j
            /\ ~RejectedWith1000(Posts[j].response) => Len(Posts) = j

\* The sleeps made so far.
Sleeps == SelectSeq(log, LAMBDA e : e.ev = "sleep")

\* C14: when retry_order has returned after k place_order calls it has made
\* k-1 backoff waits, and its last event is a place_order call, not a wait.
C14_BackoffBetweenAttempts ==
    (argv.ordertype \in {"MARKET", "LIMIT"} /\ pc = "done") =>
        /\ Len(Sleeps) = Len(Posts) - 1
        /\ log[Len(log)].ev = "post"

\* C15: in a TWAP run each slice makes exactly one place_order call, also
\* when the call returns code -1000: the POSTs made are one per slice begun,
\* N when the run is done; retry_order is never entered and the only waits
\* are the inter-slice delays.
C15_TwapNoRetry ==
    argv.ordertype = "TWAP" =>
        /\ attempt = 0 /\ resp = None
        /\ pc = "twap_call" => Len(Posts) = i
        /\ pc \in {"twap_sleep", "done"} => Len(Posts) = i + 1
        /\ pc = "done" => Len(Posts) = argv.slices
        /\ \A j \in 1..Len(Sleeps) : Sleeps[j].secs = argv.interval
        /\ Len(Sleeps) <= Len(Posts)
        /\ \A j \in 1..(Len(log) - 1) :
              (log[j].ev = "post" /\ HasCode1000(log[j].result)) => log[j + 1].ev = "sleep"

\* A TWAP of at least two slices is done although its first slice returned
\* code -1000.
C15_Witness ==
    /\ argv.ordertype = "TWAP"
    /\ pc = "done"
    /\ argv.slices >= 2
    /\ HasCode1000(Posts[1].result)
    /\ Len(Posts) = argv.slices

\* The price lookups made so far.
PriceLookups == SelectSeq(log, LAMBDA e : e.ev = "price")

\* C16: a TWAP run makes no price lookup and leaves the quantity as given:
\* each slice carries totalQuantity / sliceCount.  A MARKET or LIMIT run
\* makes one lookup, right after the client is built and before its first
\* placement, and places the quantity the adjustment returned.
C16_MinNotionalSkippedForTwap ==
    /\ argv.ordertype = "TWAP" =>
          /\ PriceLookups = <<>>
          /\ args.quantity = argv.quantity
          /\ \A j \in 1..Len(Posts) :
                PostedQty(j).n * argv.slices * argv.quantity.d
                    = argv.quantity.n * PostedQty(j).d
    /\ argv.ordertype \in {"MARKET", "LIMIT"} =>
          /\ Len(PriceLookups) <= 1
          /\ pc \in {"order", "retry_call", "retry_sleep", "done"} =>
                (Len(PriceLookups) = 1 /\ log[2].ev = "price")
          /\ \A j \in 1..Len(log) : log[j].ev = "post" => j > 2
          /\ \A j \in 1..Len(Posts) : PostedQty(j) = args.quantity

\* A TWAP of 0.0001 in all, far below the minimum notional at any price, is
\* done without a price lookup; its slices carry the unadjusted share.
C16_Witness ==
    /\ argv.ordertype = "TWAP"
    /\ argv.quantity = Fl(1000, 1)
    /\ argv.slices = 2
    /\ pc = "done"
    /\ PriceLookups = <<>>
    /\ PostedQty(2) = Fl(1000, 2)

\* A MARKET run has adjusted 0.0001 once and placed the adjusted quantity.
C16_WitnessSingle ==
    /\ argv.ordertype = "MARKET"
    /\ argv.quantity = Fl(1000, 1)
    /\ pc = "done"
    /\ Len(PriceLookups) = 1
    /\ PostedQty(1) = Fl(16670, 1)

\* The server-time requests made so far.
TimeSyncs == SelectSeq(log, LAMBDA e : e.ev = "time")

\* Seconds slept before the j-th event of the log.
RECURSIVE SleptBefore(_)
SleptBefore(j) ==
    IF j <= 1 THEN 0
    ELSE SleptBefore(j - 1) + (IF log[j - 1].ev = "sleep" THEN log[j - 1].secs ELSE 0)

\* C17: the run asks the server time once, as its first network call, when
\* the client is built; time_offset is the value computed then and never
\* changes afterwards, and every order POST is stamped with local time plus
\* that value.
C17_OffsetComputedOnce ==
    /\ [](time_offset = None => log = <<>>)
    /\ [](time_offset # None =>
            /\ Len(TimeSyncs) = 1
            /\ log[1].ev = "time"
            /\ time_offset = IF log[1].answer = None THEN Some(0) ELSE log[1].answer
            /\ \A j \in 1..Len(log) :
                  log[j].ev = "post" =>
                      ParamValue(log[j].params, "timestamp")
                          = Some(SleptBefore(j) * 1000 + time_offset[1]))
    /\ [][time_offset # None => time_offset' = time_offset]_vars

\* A TWAP of three slices 10 s apart is done with offset 300 ms: the third
\* slice was stamped 20300.
C17_Witness ==
    /\ argv.ordertype = "TWAP"
    /\ pc = "done"
    /\ argv.slices = 3
    /\ argv.interval = 10
    /\ time_offset = Some(300)
    /\ Len(TimeSyncs) = 1
    /\ ParamValue(Posts[3].params, "timestamp") = Some(20300)

\* The server-time request of the run failed.
TimeSyncFailed == Len(log) >= 1 /\ log[1].ev = "time" /\ log[1].answer = None

\* C18: when the server-time request fails the client is still built, with
\* offset 0, and the run goes on: it does not exit at that point, it ends
\* early only when the price lookup that follows fails, and otherwise it
\* places its order(s).
C18_SyncFailureTolerated ==
    TimeSyncFailed =>
        /\ time_offset = Some(0)
        /\ pc \notin {"start", "construct", "exited"}
        /\ pc = "crashed" =>
              (log[Len(log)].ev = "price" /\ log[Len(log)].answer = None)
        /\ pc = "done" => Len(Posts) >= 1

\* After a failed server-time request a MARKET run has placed its order,
\* stamped with offset 0.
C18_Witness ==
    /\ TimeSyncFailed
    /\ argv.ordertype = "MARKET"
    /\ pc = "done"
    /\ Len(Posts) = 1
    /\ ParamValue(Posts[1].params, "timestamp") = Some(0)

\* The entries of a mapping whose value is not None, in their order.
RECURSIVE NonNullOf(_)
NonNullOf(params) ==
    IF params = <<>> THEN <<>>
    ELSE IF Head(params).v = <<>> THEN NonNullOf(Tail(params))
    ELSE <<Head(params)>> \o NonNullOf(Tail(params))

\* What C19 asks of the mapping out returned for the mapping in: out is the
\* entries of in that are not None, in their order, followed by one last
\* entry "signature", whose value is taken over the encoding of exactly
\* those entries in that order.
SignedAsClaimed(in, out) ==
    LET body == SubSeq(out, 1, Len(out) - 1)
        sig == out[Len(out)]
    IN  /\ Len(out) >= 1
        /\ body = NonNullOf(in)
        /\ \A j \in 1..Len(body) : body[j].v # <<>>
        /\ sig.k = "signature"
        /\ sig.v # <<>>
        /\ sig.v[1].hmac.query = [j \in 1..Len(body) |-> <<body[j].k, body[j].v[1]>>]

HasOwnSignature(params) ==
    \E j \in 1..Len(params) : params[j].k = "signature" /\ params[j].v # <<>>

C20_Terminates ==
    /\ [](argv.ordertype \in {"MARKET", "LIMIT"} => Len(Posts) <= 3)
    /\ [](argv.ordertype = "TWAP" =>
            /\ Len(Posts) <= (IF argv.slices >= 1 THEN argv.slices ELSE 0)
            /\ pc = "done" => Len(Posts) = argv.slices)
    /\ <>Ended

\* A TWAP run is done after slices that all returned code -1000.
C20_Witness ==
    /\ argv.ordertype = "TWAP"
    /\ pc = "done"
    /\ Len(Posts) = argv.slices
    /\ \A j \in 1..Len(Posts) : HasCode1000(Posts[j].result)

\* A MARKET or LIMIT run is done after three placements that all failed.
C20_WitnessRetry ==
    /\ argv.ordertype \in {"MARKET", "LIMIT"}
    /\ pc = "done"
    /\ Len(Posts) = 3
    /\ "code" \in DOMAIN ret[1]

====
